---------------------------- MODULE Spec2Model ----------------------------
(***************************************************************************)
(* gpodder.podcastparser: the SAX handler that turns an RSS event stream   *)
(* into a podcast document (title + episode list).                         *)
(*                                                                         *)
(* Text is a sequence of one-character strings, a Python dict is a         *)
(* function whose DOMAIN is the set of keys present, Python's None / a     *)
(* value that may be None is the empty / one-element sequence.             *)
(***************************************************************************)
EXTENDS Integers, Sequences, FiniteSets, TLC

\* ------------------------------------------------------------------ bounds
MaxEpisodes == 2      \* episodes a parse may collect (item elements kept)
MaxChannels == 2      \* channel elements closed under the rss root
MaxChildren == 3      \* child elements of one item element
MaxChunks == 1        \* character-data chunks between two events of bound elements
MaxLimit == 2         \* largest max_episodes argument tried
MaxPieces == 2        \* character-data chunks of one text node delivered in pieces
MaxNest == 1          \* depth of unbound elements below a bound path

\* ------------------------------------------------------- Python primitives
None == <<>>
Some(v) == <<v>>

\* dict.get(key): None when the key is absent
get(d, k) == IF k \in DOMAIN d THEN Some(d[k]) ELSE None

\* d[k] = v
setitem(d, k, v) == [x \in DOMAIN d \cup {k} |-> IF x = k THEN v ELSE d[x]]

\* del d[k]
delitem(d, k) == [x \in DOMAIN d \ {k} |-> d[x]]

\* d.update(e)
update(d, e) == [x \in DOMAIN d \cup DOMAIN e |-> IF x \in DOMAIN e THEN e[x] ELSE d[x]]

IsSpace(c) == c \in {" ", "\t", "\n"}

RECURSIVE lstrip(_)
lstrip(s) == IF s # <<>> /\ IsSpace(Head(s)) THEN lstrip(Tail(s)) ELSE s

RECURSIVE rstrip(_)
rstrip(s) == IF s # <<>> /\ IsSpace(s[Len(s)]) THEN rstrip(SubSeq(s, 1, Len(s) - 1)) ELSE s

\* str.strip()
strip(s) == rstrip(lstrip(s))

LowerOf == ("T" :> "t") @@ ("R" :> "r") @@ ("U" :> "u") @@ ("E" :> "e") @@
           ("F" :> "f") @@ ("A" :> "a") @@ ("L" :> "l") @@ ("S" :> "s")

\* str.lower()
lower(s) == [i \in 1..Len(s) |-> IF s[i] \in DOMAIN LowerOf THEN LowerOf[s[i]] ELSE s[i]]

\* str.startswith(prefix)
startswith(s, prefix) == Len(s) >= Len(prefix) /\ SubSeq(s, 1, Len(prefix)) = prefix

\* ''.join(chunks)
RECURSIVE join(_)
join(chunks) == IF chunks = <<>> THEN <<>> ELSE Head(chunks) \o join(Tail(chunks))

DigitValue == ("0" :> 0) @@ ("1" :> 1) @@ ("2" :> 2) @@ ("3" :> 3) @@ ("4" :> 4) @@
              ("5" :> 5) @@ ("6" :> 6) @@ ("7" :> 7) @@ ("8" :> 8) @@ ("9" :> 9)

IsDigits(s) == s # <<>> /\ \A i \in 1..Len(s) : s[i] \in DOMAIN DigitValue

RECURSIVE DigitsValue(_)
DigitsValue(s) ==
    IF s = <<>> THEN 0
    ELSE 10 * DigitsValue(SubSeq(s, 1, Len(s) - 1)) + DigitValue[s[Len(s)]]

\* long(text): an optional sign and decimal digits, surrounding whitespace
\* ignored; anything else raises ValueError
long_sign(s) == IF s # <<>> /\ Head(s) = "-" THEN -1 ELSE 1
long_digits(s) == IF s # <<>> /\ Head(s) \in {"+", "-"} THEN Tail(s) ELSE s
long_raises(text) == ~IsDigits(long_digits(strip(text)))
long(text) == long_sign(strip(text)) * DigitsValue(long_digits(strip(text)))

\* urlparse.urljoin(base, url) on http URLs without dot segments or queries
HasScheme(u) == \E i \in 1..Len(u) : u[i] = ":" /\ \A j \in 1..(i - 1) : u[j] # "/"
RECURSIVE DirOf(_)
DirOf(u) == IF u = <<>> \/ u[Len(u)] = "/" THEN u ELSE DirOf(SubSeq(u, 1, Len(u) - 1))
urljoin(base, url) ==
    IF url = <<>> THEN base
    ELSE IF HasScheme(url) THEN url
    ELSE DirOf(base) \o url

\* ----------------------------------------------------------- sample texts
HTTP == <<"h", "t", "t", "p", ":", "/", "/">>
FEED_URL == HTTP \o <<"f", "/", "r", "s", "s">>
BASE_A == HTTP \o <<"a", "/">>
BASE_B == HTTP \o <<"b", "/">>
OCTET_STREAM == <<"a", "p", "p", "l", "i", "c", "a", "t", "i", "o", "n", "/",
                  "o", "c", "t", "e", "t", "-", "s", "t", "r", "e", "a", "m">>
VIDEO_MP4 == <<"v", "i", "d", "e", "o", "/", "m", "p", "4">>
YOUTUBE_LINK == HTTP \o <<"y", "t", "/", "w">>
VIMEO_LINK == HTTP \o <<"v", "m", "/", "1">>
PAGE_LINK == HTTP \o <<"p", "g">>

\* ------------------------------------------------------ external modules
\* gpodder.youtube / gpodder.vimeo
youtube_is_video_link(url) == startswith(url, HTTP \o <<"y", "t", "/">>)
vimeo_is_video_link(url) == startswith(url, HTTP \o <<"v", "m", "/">>)

\* gpodder.util.normalize_feed_url: None for an empty URL, http:// put in
\* front of a URL without a scheme
normalize_feed_url(url) ==
    IF url = <<>> THEN None
    ELSE IF HasScheme(url) THEN url ELSE HTTP \o url

\* gpodder.util.parse_date: epoch seconds, 0 when the text is no date
parse_date(text) == IF IsDigits(strip(text)) THEN DigitsValue(strip(text)) ELSE 0

\* gpodder.util.parse_time: seconds, 0 when the text is no duration
parse_time(text) == IF IsDigits(text) THEN DigitsValue(text) ELSE 0

\* ----------------------------------------------------------- field parsers
RECURSIVE squash(_)
squash(s) ==
    IF s = <<>> THEN <<>>
    ELSE IF IsSpace(Head(s)) THEN <<" ">> \o squash(lstrip(s))
    ELSE <<Head(s)>> \o squash(Tail(s))

squash_whitespace(text) == squash(strip(text))

parse_duration(text) == parse_time(strip(text))

parse_url(text) == normalize_feed_url(strip(text))

parse_length(text) ==
    IF text = None THEN -1
    ELSE IF long_raises(text[1]) THEN -1
    ELSE IF long(text[1]) = 0 THEN -1
    ELSE long(text[1])

\* faulty variant: the '/' test left out
parse_type_unchecked(text) ==
    IF text = None \/ text[1] = <<>> THEN OCTET_STREAM ELSE text[1]

parse_type(text) ==
    IF text = None \/ text[1] = <<>> \/ ~(\E i \in 1..Len(text[1]) : text[1][i] = "/")
    THEN OCTET_STREAM
    ELSE text[1]

parse_pubdate(text) == parse_date(text)


\* ------------------------------------------------------------ the handler
\* PodcastHandler.__init__.  data['episodes'] starts as the very list object
\* self.episodes; `sliced` is None while that is so, and holds the separate
\* list object once data['episodes'] has been rebound to a slice.
PodcastHandler(url, max_episodes) ==
    [url |-> url,
     max_episodes |-> max_episodes,
     base |-> None,
     text |-> None,
     episodes |-> <<>>,
     data |-> [title |-> <<>>],
     sliced |-> None,
     path_stack |-> <<>>]

\* handler.data['episodes']
data_episodes(h) == IF h.sliced = None THEN h.episodes ELSE h.sliced[1]

\* the dict parse() returns
document(h) == update(h.data, [episodes |-> data_episodes(h)])

set_base(h, base) == [h EXCEPT !.base = base]

set_podcast_attr(h, key, value) == [h EXCEPT !.data = setitem(@, key, value)]

set_episode_attr(h, key, value) ==
    [h EXCEPT !.episodes[Len(h.episodes)] = setitem(@, key, value)]

add_enclosure(h, url, file_size, mime_type) ==
    [h EXCEPT !.episodes[Len(h.episodes)] =
        setitem(@, "enclosures",
                Append(@["enclosures"],
                       [url |-> url, file_size |-> file_size, mime_type |-> mime_type]))]

\* ---------------------------------------------------------------- targets
\* list.sort(key=published, reverse=True): stable, descending
RECURSIVE insert_sorted(_, _)
insert_sorted(sorted, entry) ==
    IF sorted = <<>> THEN <<entry>>
    ELSE IF sorted[Len(sorted)]["published"] >= entry["published"]
         THEN Append(sorted, entry)
         ELSE Append(insert_sorted(SubSeq(sorted, 1, Len(sorted) - 1), entry),
                     sorted[Len(sorted)])

\* faulty variant: an ascending sort followed by a reversal, which turns the
\* order of equal keys around
RECURSIVE insert_ascending(_, _)
insert_ascending(sorted, entry) ==
    IF sorted = <<>> THEN <<entry>>
    ELSE IF sorted[Len(sorted)]["published"] <= entry["published"]
         THEN Append(sorted, entry)
         ELSE Append(insert_ascending(SubSeq(sorted, 1, Len(sorted) - 1), entry),
                     sorted[Len(sorted)])

RECURSIVE sort_ascending(_)
sort_ascending(entries) ==
    IF entries = <<>> THEN <<>>
    ELSE insert_ascending(sort_ascending(SubSeq(entries, 1, Len(entries) - 1)),
                          entries[Len(entries)])

sort_then_reverse(entries) ==
    [i \in 1..Len(entries) |-> sort_ascending(entries)[Len(entries) + 1 - i]]

RECURSIVE sort_published_reverse(_)
sort_published_reverse(entries) ==
    IF entries = <<>> THEN <<>>
    ELSE insert_sorted(sort_published_reverse(SubSeq(entries, 1, Len(entries) - 1)),
                       entries[Len(entries)])

\* entries[:n] for n >= 0
slice_to(entries, n) == SubSeq(entries, 1, IF n < Len(entries) THEN n ELSE Len(entries))

\* faulty variant: the sort of line 50 left out
sort_skipped(h) == h

\* the in-place sort of line 50 on whichever list data['episodes'] names
sort_data_episodes(h) ==
    IF h.sliced = None
    THEN [h EXCEPT !.episodes = sort_published_reverse(@)]
    ELSE [h EXCEPT !.sliced = Some(sort_published_reverse(@[1]))]

\* faulty variant: the slice of line 52 keeps one entry too many
truncate_one_more(h) ==
    IF h.max_episodes # 0
    THEN [h EXCEPT !.sliced = Some(SubSeq(data_episodes(h), 1,
                                          IF h.max_episodes + 1 < Len(data_episodes(h))
                                          THEN h.max_episodes + 1
                                          ELSE Len(data_episodes(h))))]
    ELSE h

\* lines 51-52: data['episodes'] is rebound to a new list, self.episodes is not
truncate_data_episodes(h) ==
    IF h.max_episodes # 0
    THEN [h EXCEPT !.sliced = Some(slice_to(data_episodes(h), h.max_episodes))]
    ELSE h

\* faulty variant: the list is cut before it is sorted
truncate_then_sort(h) == sort_data_episodes(truncate_data_episodes(h))

PodcastItem_end(h) == truncate_data_episodes(sort_data_episodes(h))

RSS_start(h, attrs) == set_base(h, get(attrs, "xml:base"))

Filter(name, text) ==
    CASE name = "strip" -> strip(text)
      [] name = "squash_whitespace" -> squash_whitespace(text)
      [] name = "parse_duration" -> parse_duration(text)
      [] name = "parse_pubdate" -> parse_pubdate(text)

PodcastAttr_end(t, h, text) == set_podcast_attr(h, t.key, Filter(t.filter, text))

PodcastAttrFromHref_start(t, h, attrs) ==
    IF get(attrs, "href") # None /\ attrs["href"] # <<>>
    THEN set_podcast_attr(h, t.key, Filter(t.filter, attrs["href"]))
    ELSE h

PodcastAttrFromPaymentHref_start(t, h, attrs) ==
    IF get(attrs, "rel") = Some(<<"p", "a", "y", "m", "e", "n", "t">>)
    THEN PodcastAttrFromHref_start(t, h, attrs)
    ELSE h

NewEpisode ==
    [description |-> <<>>,
     published |-> 0,
     link |-> <<>>,
     file_size |-> -1,
     mime_type |-> OCTET_STREAM,
     total_time |-> 0,
     payment_url |-> None,
     enclosures |-> <<>>,
     _guid_is_permalink |-> FALSE]

\* faulty variant: the new episode is put at the head of the list
EpisodeItem_start_at_head(h, attrs) == [h EXCEPT !.episodes = <<NewEpisode>> \o @]

EpisodeItem_start(h, attrs) == [h EXCEPT !.episodes = Append(@, NewEpisode)]

\* faulty variant: the synthetic enclosure gets the default type
SyntheticEnclosure_default_type(entry) ==
    [url |-> entry["link"], file_size |-> -1, mime_type |-> OCTET_STREAM]

SyntheticEnclosure(entry) ==
    [url |-> entry["link"], file_size |-> -1, mime_type |-> VIDEO_MP4]

\* faulty variant: the enclosure seen last is taken
pick_last_enclosure(enclosures) == enclosures[Len(enclosures)]

\* line 105: the enclosure whose fields the episode takes
pick_enclosure(enclosures) == enclosures[1]

\* faulty variant: the permalink flag is left on the entry
finalize_entry_keeps_flag(entry) ==
    LET e1 == delitem(update(entry, pick_enclosure(entry["enclosures"])), "enclosures")
        e2 == IF "guid" \notin DOMAIN e1 THEN setitem(e1, "guid", e1["url"]) ELSE e1
        e3 == IF "title" \notin DOMAIN e2 THEN setitem(e2, "title", e2["url"]) ELSE e2
    IN  IF e3["link"] = <<>> /\ e3["_guid_is_permalink"]
        THEN setitem(e3, "link", e3["guid"]) ELSE e3

\* lines 104-118, on an entry that holds at least one enclosure
finalize_entry(entry) ==
    LET e1 == delitem(update(entry, pick_enclosure(entry["enclosures"])), "enclosures")
        e2 == IF "guid" \notin DOMAIN e1 THEN setitem(e1, "guid", e1["url"]) ELSE e1
        e3 == IF "title" \notin DOMAIN e2 THEN setitem(e2, "title", e2["url"]) ELSE e2
        e4 == IF e3["link"] = <<>> /\ e3["_guid_is_permalink"]
              THEN setitem(e3, "link", e3["guid"]) ELSE e3
    IN  delitem(e4, "_guid_is_permalink")

\* faulty variant: the second classifier is not consulted
is_youtube_link_only(link) == youtube_is_video_link(link)

\* lines 93-94
is_video_link(link) == youtube_is_video_link(link) \/ vimeo_is_video_link(link)

EpisodeItem_end(h) ==
    LET n == Len(h.episodes)
        entry == h.episodes[n]
    IN  IF Len(entry["enclosures"]) = 0
        THEN IF is_video_link(entry["link"])
             THEN [h EXCEPT !.episodes[n] =
                      finalize_entry(setitem(entry, "enclosures",
                                             <<SyntheticEnclosure(entry)>>))]
             ELSE [h EXCEPT !.episodes = SubSeq(@, 1, n - 1)]
        ELSE [h EXCEPT !.episodes[n] = finalize_entry(entry)]

EpisodeAttr_end(t, h, text) == set_episode_attr(h, t.key, Filter(t.filter, text))

\* faulty variant: isPermaLink is compared as it is written
EpisodeGuid_start_exact_case(h, attrs) ==
    IF (IF "isPermaLink" \in DOMAIN attrs THEN attrs["isPermaLink"]
        ELSE <<"t", "r", "u", "e">>) = <<"t", "r", "u", "e">>
    THEN set_episode_attr(h, "_guid_is_permalink", TRUE)
    ELSE set_episode_attr(h, "_guid_is_permalink", FALSE)

EpisodeGuid_start(h, attrs) ==
    IF lower(IF "isPermaLink" \in DOMAIN attrs THEN attrs["isPermaLink"]
             ELSE <<"t", "r", "u", "e">>) = <<"t", "r", "u", "e">>
    THEN set_episode_attr(h, "_guid_is_permalink", TRUE)
    ELSE set_episode_attr(h, "_guid_is_permalink", FALSE)

\* the closure of lines 134-138; `base` is the .base of the handler the
\* closure captured, read when the closure runs
guid_filter_func(base, guid) ==
    IF base # None THEN urljoin(base[1], strip(guid)) ELSE strip(guid)

\* line 141 with self.filter_func being a closure over a handler with `base`
EpisodeGuid_apply(t, h, text, base) == set_episode_attr(h, t.key, guid_filter_func(base, text))

EpisodeAttrFromHref_start(t, h, attrs) ==
    IF get(attrs, "href") # None /\ attrs["href"] # <<>>
    THEN set_episode_attr(h, t.key, Some(Filter(t.filter, attrs["href"])))
    ELSE h

EpisodeAttrFromPaymentHref_start(t, h, attrs) ==
    IF get(attrs, "rel") = Some(<<"p", "a", "y", "m", "e", "n", "t">>)
    THEN EpisodeAttrFromHref_start(t, h, attrs)
    ELSE h

Enclosure_start(h, attrs) ==
    IF get(attrs, "url") = None THEN h
    ELSE add_enclosure(h,
                       parse_url(urljoin(h.url, attrs["url"])),
                       parse_length(get(attrs, "length")),
                       parse_type(get(attrs, "type")))


\* ------------------------------------------------------- the binding table
Target(cls, key, filter) == [cls |-> cls, key |-> key, filter |-> filter]

MAPPING ==
    (<<"rss">> :> Target("RSS", "", "strip")) @@
    (<<"rss", "channel">> :> Target("PodcastItem", "", "strip")) @@
    (<<"rss", "channel", "title">> :> Target("PodcastAttr", "title", "squash_whitespace")) @@
    (<<"rss", "channel", "link">> :> Target("PodcastAttr", "link", "strip")) @@
    (<<"rss", "channel", "description">> :>
        Target("PodcastAttr", "description", "squash_whitespace")) @@
    (<<"rss", "channel", "image", "url">> :> Target("PodcastAttr", "cover_url", "strip")) @@
    (<<"rss", "channel", "itunes:image">> :>
        Target("PodcastAttrFromHref", "cover_url", "strip")) @@
    (<<"rss", "channel", "atom:link">> :>
        Target("PodcastAttrFromPaymentHref", "payment_url", "strip")) @@
    (<<"rss", "channel", "item">> :> Target("EpisodeItem", "", "strip")) @@
    (<<"rss", "channel", "item", "guid">> :> Target("EpisodeGuid", "guid", "strip")) @@
    (<<"rss", "channel", "item", "title">> :>
        Target("EpisodeAttr", "title", "squash_whitespace")) @@
    (<<"rss", "channel", "item", "link">> :> Target("EpisodeAttr", "link", "strip")) @@
    (<<"rss", "channel", "item", "description">> :>
        Target("EpisodeAttr", "description", "squash_whitespace")) @@
    (<<"rss", "channel", "item", "itunes:duration">> :>
        Target("EpisodeAttr", "total_time", "parse_duration")) @@
    (<<"rss", "channel", "item", "pubDate">> :>
        Target("EpisodeAttr", "published", "parse_pubdate")) @@
    (<<"rss", "channel", "item", "atom:link">> :>
        Target("EpisodeAttrFromPaymentHref", "payment_url", "strip")) @@
    (<<"rss", "channel", "item", "enclosure">> :> Target("Enclosure", "", "strip"))

WANT_TEXT(t) == t.cls \in {"PodcastAttr", "EpisodeAttr", "EpisodeGuid"}

\* target.start(handler, attrs)
target_start(t, h, attrs) ==
    CASE t.cls = "RSS" -> RSS_start(h, attrs)
      [] t.cls = "PodcastAttrFromHref" -> PodcastAttrFromHref_start(t, h, attrs)
      [] t.cls = "PodcastAttrFromPaymentHref" -> PodcastAttrFromPaymentHref_start(t, h, attrs)
      [] t.cls = "EpisodeItem" -> EpisodeItem_start(h, attrs)
      [] t.cls = "EpisodeGuid" -> EpisodeGuid_start(h, attrs)
      [] t.cls = "EpisodeAttrFromPaymentHref" -> EpisodeAttrFromPaymentHref_start(t, h, attrs)
      [] t.cls = "Enclosure" -> Enclosure_start(h, attrs)
      [] OTHER -> h

\* target.end(handler, text); `base` is what EpisodeGuid's filter_func reads
target_end(t, h, text, base) ==
    CASE t.cls = "PodcastItem" -> PodcastItem_end(h)
      [] t.cls = "PodcastAttr" -> PodcastAttr_end(t, h, text)
      [] t.cls = "EpisodeItem" -> EpisodeItem_end(h)
      [] t.cls = "EpisodeAttr" -> EpisodeAttr_end(t, h, text)
      [] t.cls = "EpisodeGuid" -> EpisodeGuid_apply(t, h, text, base)
      [] OTHER -> h

\* faulty variant: the target is looked up by the tag name alone
startElement_by_name(h, name, attrs) ==
    LET h1 == [h EXCEPT !.path_stack = Append(@, name)]
        bound == {p \in DOMAIN MAPPING : p[Len(p)] = name}
    IN  IF bound # {}
        THEN LET target == MAPPING[CHOOSE p \in bound : TRUE]
                 h2 == target_start(target, h1, attrs)
             IN  IF WANT_TEXT(target) THEN [h2 EXCEPT !.text = Some(<<>>)] ELSE h2
        ELSE h1

\* ------------------------------------------------------- the SAX callbacks
startElement(h, name, attrs) ==
    LET h1 == [h EXCEPT !.path_stack = Append(@, name)]
    IN  IF h1.path_stack \in DOMAIN MAPPING
        THEN LET target == MAPPING[h1.path_stack]
                 h2 == target_start(target, h1, attrs)
             IN  IF WANT_TEXT(target) THEN [h2 EXCEPT !.text = Some(<<>>)] ELSE h2
        ELSE h1

\* faulty variant: a new chunk is put in front of the buffered ones
characters_newest_first(h, chars) ==
    IF h.text # None THEN [h EXCEPT !.text = Some(<<chars>> \o @[1])] ELSE h

characters(h, chars) ==
    IF h.text # None THEN [h EXCEPT !.text = Some(Append(@[1], chars))] ELSE h

\* faulty variant: the text buffer is cleared at the exit of every element
endElement_clears_text(h, base) ==
    LET h1 == IF h.path_stack \in DOMAIN MAPPING
              THEN target_end(MAPPING[h.path_stack], h,
                              IF h.text # None THEN join(h.text[1]) ELSE <<>>, base)
              ELSE h
    IN  [h1 EXCEPT !.text = None, !.path_stack = SubSeq(@, 1, Len(@) - 1)]

\* endElement, with the .base that EpisodeGuid's filter_func reads
endElement_with(h, base) ==
    LET h1 == IF h.path_stack \in DOMAIN MAPPING
              THEN [target_end(MAPPING[h.path_stack], h,
                               IF h.text # None THEN join(h.text[1]) ELSE <<>>, base)
                       EXCEPT !.text = None]
              ELSE h
    IN  [h1 EXCEPT !.path_stack = SubSeq(@, 1, Len(@) - 1)]

\* endElement in a parse that runs alone: line 140 stores a closure over this
\* handler, line 141 calls it
endElement(h) == endElement_with(h, h.base)


\* ------------------------------------------------------------- the inputs
\* Three families of documents are parsed.  A feed document holds several
\* items in several channel elements, each item plain (enclosure urls, a
\* pubDate).  An enclosure document holds one item whose enclosure attributes
\* and link vary; a guid document holds one item whose guid, link and xml:base
\* vary.

FeedNames == {"rss", "channel", "item", "pubDate", "enclosure"}

EnclosureDocNames == {"rss", "channel", "item", "enclosure", "link"}

GuidDocNames == {"rss", "channel", "item", "guid", "link", "enclosure"}

\* names tried where no handler is bound to the path
UnboundNames == {"x"}

RootAttrs == {<<>>, ("xml:base" :> BASE_A)}

GuidAttrs == {<<>>,
              ("isPermaLink" :> <<"f", "a", "l", "s", "e">>),
              ("isPermaLink" :> <<"T", "r", "u", "e">>)}

URL_1 == <<"e", "1">>
URL_2 == HTTP \o <<"c", "/", "e", "2">>

LengthTexts == {<<"1", "0">>, <<"0">>, <<"a", "b", "c">>, <<"-", "5">>, <<" ", "7", " ">>}

TypeTexts == {<<>>, <<"a", "/", "b">>, <<"m", "p", "3">>}

\* one enclosure per length text and per type text, the other attributes
\* absent or plain
EnclosureAttrs ==
    {("url" :> URL_1), ("length" :> <<"1", "0">>) @@ ("type" :> <<"a", "/", "b">>)}
    \cup {("url" :> URL_1) @@ ("length" :> l) : l \in LengthTexts}
    \cup {("url" :> URL_2) @@ ("type" :> t) : t \in TypeTexts}

FeedAttrsOf(name) ==
    CASE name = "enclosure" -> {("url" :> URL_1), ("url" :> URL_2)}
      [] OTHER -> {<<>>}

EnclosureDocAttrsOf(name) ==
    CASE name = "enclosure" -> EnclosureAttrs
      [] OTHER -> {<<>>}

GuidDocAttrsOf(name) ==
    CASE name = "rss" -> RootAttrs
      [] name = "guid" -> GuidAttrs
      [] name = "enclosure" -> {("url" :> URL_1)}
      [] OTHER -> {<<>>}

\* character data tried inside an element
ChunksOf(name) ==
    CASE name = "link" -> {YOUTUBE_LINK, VIMEO_LINK, PAGE_LINK}
      [] name = "pubDate" -> {<<"1">>}
      [] name = "guid" -> {<<"g">>}
      [] name = "title" -> {<<"a">>}
      [] OTHER -> {<<"z">>}

\* how many elements at the end of the path lie below the deepest bound path
RECURSIVE Unbound(_)
Unbound(path) ==
    IF path = <<>> \/ path \in DOMAIN MAPPING THEN 0
    ELSE 1 + Unbound(SubSeq(path, 1, Len(path) - 1))

\* the name of the innermost open element
OpenElement(h) == IF h.path_stack = <<>> THEN "" ELSE h.path_stack[Len(h.path_stack)]

ITEM_PATH == <<"rss", "channel", "item">>
CHANNEL_PATH == <<"rss", "channel">>
GUID_PATH == <<"rss", "channel", "item", "guid">>
ENCLOSURE_PATH == <<"rss", "channel", "item", "enclosure">>

\* ------------------------------------------------------------- one parse
VARIABLES
    handler,       \* the PodcastHandler of parse(url, stream, max_episodes)
    unlimited,     \* the handler of parse(url, stream, 0) on the same events
    guid_filter,   \* MAPPING's EpisodeGuid instance: the handler its filter_func
                   \* closes over, None while it is still Target's default
    stream,        \* the event source: "start", "open" (inside the root), "end"
    result,        \* what parse() returned, None before it returns
    finalized,     \* history: how often PodcastItem.end has run
    seen,          \* history: what the open item element has contained
    delivered,     \* history: the character chunks delivered since the last
                   \* enter or exit event of an element with a bound path
    kept,          \* history: the episodes that item closes kept, in stream order
    threads        \* the parses of the concurrent specification

vars == <<handler, unlimited, guid_filter, stream, result, finalized, seen, delivered, kept,
          threads>>

NoItem == [enclosure |-> None, guid |-> None, children |-> 0]

\* the event may come next in a well-formed document, within the bounds
MayStart(h, name, attrs) ==
    LET path == Append(h.path_stack, name)
    IN  /\ \/ path \in DOMAIN MAPPING
           \/ name \in UnboundNames /\ Unbound(path) <= MaxNest
        /\ h.path_stack = ITEM_PATH => seen.children < MaxChildren

\* a feed document: at most MaxEpisodes items kept, MaxChannels channels
InFeed(name) ==
    LET path == Append(handler.path_stack, name)
    IN  /\ path = ITEM_PATH => Len(unlimited.episodes) < MaxEpisodes
        /\ path = CHANNEL_PATH => finalized < MaxChannels

\* a document of one item: one channel, no item after an item that was kept
InItem(name) ==
    LET path == Append(handler.path_stack, name)
    IN  /\ path = ITEM_PATH => unlimited.episodes = <<>>
        /\ path = CHANNEL_PATH => finalized = 0

Init ==
    /\ \E max_episodes \in 0..MaxLimit : handler = PodcastHandler(FEED_URL, max_episodes)
    /\ unlimited = PodcastHandler(FEED_URL, 0)
    /\ guid_filter = None
    /\ stream = "start"
    /\ result = None
    /\ finalized = 0
    /\ seen = NoItem
    /\ delivered = <<>>
    /\ kept = <<>>
    /\ threads = <<>>

\* a document of one item is parsed with the default max_episodes
InitItem ==
    /\ handler = PodcastHandler(FEED_URL, 0)
    /\ unlimited = PodcastHandler(FEED_URL, 0)
    /\ guid_filter = None
    /\ stream = "start"
    /\ result = None
    /\ finalized = 0
    /\ seen = NoItem
    /\ delivered = <<>>
    /\ kept = <<>>
    /\ threads = <<>>

StartElement(name, attrs) ==
    LET path == Append(handler.path_stack, name)
    IN  /\ result = None
        /\ IF handler.path_stack = <<>> THEN stream = "start" ELSE stream = "open"
        /\ handler' = startElement(handler, name, attrs)
        /\ unlimited' = startElement(unlimited, name, attrs)
        /\ stream' = "open"
        /\ seen' = IF handler.path_stack # ITEM_PATH THEN seen
                   ELSE [seen EXCEPT
                            !.children = @ + 1,
                            !.guid = IF name = "guid" THEN Some(attrs) ELSE @,
                            !.enclosure = IF name = "enclosure" /\ "url" \in DOMAIN attrs
                                             /\ @ = None
                                          THEN Some(attrs) ELSE @]
        /\ delivered' = IF path \in DOMAIN MAPPING THEN <<>> ELSE delivered
        /\ UNCHANGED <<guid_filter, result, finalized, kept, threads>>

Characters(chars) ==
    /\ result = None
    /\ stream = "open"
    /\ handler.path_stack # <<>>
    /\ handler' = characters(handler, chars)
    /\ unlimited' = characters(unlimited, chars)
    /\ delivered' = Append(delivered, chars)
    /\ UNCHANGED <<guid_filter, stream, result, finalized, seen, kept, threads>>

EndElement ==
    /\ result = None
    /\ stream = "open"
    /\ handler.path_stack # <<>>
    /\ handler' = endElement(handler)
    /\ unlimited' = endElement(unlimited)
    /\ guid_filter' = IF handler.path_stack = GUID_PATH THEN Some("handler")
                      ELSE guid_filter
    /\ finalized' = IF handler.path_stack \in DOMAIN MAPPING
                       /\ MAPPING[handler.path_stack].cls = "PodcastItem"
                    THEN finalized + 1 ELSE finalized
    /\ stream' = IF Len(handler.path_stack) = 1 THEN "end" ELSE "open"
    /\ seen' = IF handler.path_stack = ITEM_PATH THEN NoItem ELSE seen
    /\ delivered' = IF handler.path_stack \in DOMAIN MAPPING THEN <<>> ELSE delivered
    /\ kept' = IF /\ handler.path_stack = ITEM_PATH
                  /\ Len(handler'.episodes) = Len(handler.episodes)
               THEN Append(kept, handler'.episodes[Len(handler'.episodes)])
               ELSE kept
    /\ UNCHANGED <<result, threads>>

\* parse(): sax.parse has consumed the document, handler.data is returned
Return ==
    /\ result = None
    /\ stream = "end"
    /\ result' = Some(document(handler))
    /\ UNCHANGED <<handler, unlimited, guid_filter, stream, finalized, seen, delivered, kept,
                   threads>>

StartFeedElement ==
    \E name \in FeedNames : \E attrs \in FeedAttrsOf(name) :
        InFeed(name) /\ MayStart(handler, name, attrs) /\ StartElement(name, attrs)

StartEnclosureDocElement ==
    \E name \in EnclosureDocNames : \E attrs \in EnclosureDocAttrsOf(name) :
        InItem(name) /\ MayStart(handler, name, attrs) /\ StartElement(name, attrs)

StartGuidDocElement ==
    \E name \in GuidDocNames : \E attrs \in GuidDocAttrsOf(name) :
        InItem(name) /\ MayStart(handler, name, attrs) /\ StartElement(name, attrs)

SomeCharacters ==
    \E chars \in ChunksOf(OpenElement(handler)) :
        Len(delivered) < MaxChunks /\ Characters(chars)

\* character data that reaches the handler in up to MaxPieces chunks
SomePieces ==
    \E chars \in ChunksOf(OpenElement(handler)) :
        Len(delivered) < MaxPieces /\ Characters(chars)

\* a document in which the element names occur at any place: as root, below
\* any element, at bound and at unbound paths
DispatchNames == {"rss", "channel", "item", "title", "x"}

InDispatch(name) ==
    LET path == Append(handler.path_stack, name)
    IN  /\ Unbound(path) <= MaxNest
        /\ path = CHANNEL_PATH => finalized = 0
        /\ handler.path_stack = ITEM_PATH => seen.children < MaxChildren

\* the attributes tried on an element that is unbound wherever it occurs
DispatchAttrsOf(name) ==
    CASE name = "x" -> RootAttrs
      [] OTHER -> {<<>>}

StartDispatchElement ==
    \E name \in DispatchNames : \E attrs \in DispatchAttrsOf(name) :
        InDispatch(name) /\ StartElement(name, attrs)

\* parses of feed documents
Next == StartFeedElement \/ SomeCharacters \/ EndElement \/ Return

Spec == Init /\ [][Next]_vars

\* parses of enclosure documents
NextEnclosure == StartEnclosureDocElement \/ SomeCharacters \/ EndElement \/ Return

SpecEnclosure == InitItem /\ [][NextEnclosure]_vars

\* parses of documents with elements at any place
NextDispatch == StartDispatchElement \/ SomePieces \/ EndElement \/ Return

SpecDispatch == InitItem /\ [][NextDispatch]_vars

\* parses of guid documents
NextGuid == StartGuidDocElement \/ SomeCharacters \/ EndElement \/ Return

SpecGuid == InitItem /\ [][NextGuid]_vars

\* ---------------------------------------------------- concurrent parses
\* Two threads call parse(), each on its own document with its own feed URL
\* and xml:base.  The handlers are separate objects; MAPPING and the Target
\* instances in it are module globals that both threads use.  A callback is
\* one step, except EpisodeGuid.end, whose line 140 writes the filter_func
\* attribute of the shared EpisodeGuid instance and whose line 141 reads it.
Threads == {"t1", "t2"}

ThreadUrl(t) == IF t = "t1" THEN FEED_URL ELSE HTTP \o <<"g", "/", "r", "s", "s">>

ThreadBase(t) == IF t = "t1" THEN BASE_A ELSE BASE_B

ThreadDocNames == {"rss", "channel", "item", "guid", "enclosure"}

ThreadDocAttrsOf(t, name) ==
    CASE name = "rss" -> {<<>>, ("xml:base" :> ThreadBase(t))}
      [] name = "enclosure" -> {("url" :> URL_1)}
      [] OTHER -> {<<>>}

InitThreads ==
    /\ threads = [t \in Threads |->
                    [handler |-> PodcastHandler(ThreadUrl(t), 0),
                     alone |-> PodcastHandler(ThreadUrl(t), 0),
                     stream |-> "start",
                     pc |-> "callback",
                     children |-> 0,
                     result |-> None]]
    /\ guid_filter = None
    /\ handler = PodcastHandler(FEED_URL, 0)
    /\ unlimited = PodcastHandler(FEED_URL, 0)
    /\ stream = "start"
    /\ result = None
    /\ finalized = 0
    /\ seen = NoItem
    /\ delivered = <<>>
    /\ kept = <<>>

ThreadStartElement(t, name, attrs) ==
    LET th == threads[t]
        path == Append(th.handler.path_stack, name)
    IN  /\ th.pc = "callback"
        /\ IF th.handler.path_stack = <<>> THEN th.stream = "start" ELSE th.stream = "open"
        /\ path \in DOMAIN MAPPING
        /\ path = CHANNEL_PATH => th.alone.episodes = <<>> /\ th.children = 0
        /\ path = ITEM_PATH => th.alone.episodes = <<>>
        /\ th.handler.path_stack = ITEM_PATH => th.children < MaxChildren
        /\ threads' = [threads EXCEPT ![t] =
                [th EXCEPT !.handler = startElement(@, name, attrs),
                           !.alone = startElement(@, name, attrs),
                           !.stream = "open",
                           !.children = IF path = ITEM_PATH THEN 0
                                        ELSE IF th.handler.path_stack = ITEM_PATH
                                             THEN @ + 1 ELSE @]]
        /\ UNCHANGED <<handler, unlimited, guid_filter, stream, result, finalized, seen,
                     delivered, kept>>

ThreadCharacters(t, chars) ==
    LET th == threads[t]
    IN  /\ th.pc = "callback"
        /\ th.stream = "open"
        /\ th.handler.path_stack # <<>>
        /\ th.handler.text # None => Len(th.handler.text[1]) < MaxChunks
        /\ threads' = [threads EXCEPT ![t] =
                [th EXCEPT !.handler = characters(@, chars),
                           !.alone = characters(@, chars)]]
        /\ UNCHANGED <<handler, unlimited, guid_filter, stream, result, finalized, seen,
                     delivered, kept>>

\* endElement of any element but rss/channel/item/guid
ThreadEndElement(t) ==
    LET th == threads[t]
    IN  /\ th.pc = "callback"
        /\ th.stream = "open"
        /\ th.handler.path_stack # <<>>
        /\ th.handler.path_stack # GUID_PATH
        /\ threads' = [threads EXCEPT ![t] =
                [th EXCEPT !.handler = endElement(@),
                           !.alone = endElement(@),
                           !.stream = IF Len(th.handler.path_stack) = 1
                                      THEN "end" ELSE "open"]]
        /\ UNCHANGED <<handler, unlimited, guid_filter, stream, result, finalized, seen,
                     delivered, kept>>

\* faulty variant: the closure is stored only while the instance still has
\* the default filter_func
GuidEndStore_once(t) ==
    LET th == threads[t]
    IN  /\ th.pc = "callback"
        /\ th.stream = "open"
        /\ th.handler.path_stack = GUID_PATH
        /\ guid_filter' = IF guid_filter = None THEN Some(t) ELSE guid_filter
        /\ threads' = [threads EXCEPT ![t].pc = "line141"]
        /\ UNCHANGED <<handler, unlimited, stream, result, finalized, seen, delivered, kept>>

\* endElement of rss/channel/item/guid up to line 140: self.filter_func = filter_func
GuidEndStore(t) ==
    LET th == threads[t]
    IN  /\ th.pc = "callback"
        /\ th.stream = "open"
        /\ th.handler.path_stack = GUID_PATH
        /\ guid_filter' = Some(t)
        /\ threads' = [threads EXCEPT ![t].pc = "line141"]
        /\ UNCHANGED <<handler, unlimited, stream, result, finalized, seen, delivered, kept>>

\* line 141 and the rest of endElement: self.filter_func is read and called; it
\* is the closure stored last, and reads the base of the handler it captured
GuidEndCall(t) ==
    LET th == threads[t]
        captured == threads[guid_filter[1]].handler
    IN  /\ th.pc = "line141"
        /\ threads' = [threads EXCEPT ![t] =
                [th EXCEPT !.handler = endElement_with(@, captured.base),
                           !.alone = endElement(@),
                           !.pc = "callback"]]
        /\ UNCHANGED <<handler, unlimited, guid_filter, stream, result, finalized, seen,
                     delivered, kept>>

ThreadReturn(t) ==
    LET th == threads[t]
    IN  /\ th.pc = "callback"
        /\ th.stream = "end"
        /\ th.result = None
        /\ threads' = [threads EXCEPT ![t].result = Some(document(th.handler))]
        /\ UNCHANGED <<handler, unlimited, guid_filter, stream, result, finalized, seen,
                     delivered, kept>>

ThreadStartDocElement(t) ==
    \E name \in ThreadDocNames : \E attrs \in ThreadDocAttrsOf(t, name) :
        ThreadStartElement(t, name, attrs)

ThreadSomeCharacters(t) ==
    \E chars \in ChunksOf(OpenElement(threads[t].handler)) : ThreadCharacters(t, chars)

NextThreads ==
    \E t \in Threads :
        \/ ThreadStartDocElement(t)
        \/ ThreadSomeCharacters(t)
        \/ ThreadEndElement(t)
        \/ GuidEndStore(t)
        \/ GuidEndCall(t)
        \/ ThreadReturn(t)

SpecThreads == InitThreads /\ [][NextThreads]_vars

\* --------------------------------------------------------------- C1
\* C1: each of two interleaved parses returns exactly the document it returns
\* when it runs alone (so every guid is resolved against the xml:base of its
\* own parse).
C1_Isolated ==
    \A t \in Threads :
        threads[t].result # None => threads[t].result = Some(document(threads[t].alone))

\* --------------------------------------------------------------- C2
\* C2: with max_episodes = n > 0 the returned episode list is the first n
\* entries of the list the same event stream yields with max_episodes = 0.
C2_FirstN ==
    result # None /\ handler.max_episodes > 0 =>
        result[1]["episodes"] =
            slice_to(document(unlimited)["episodes"], handler.max_episodes)

\* --------------------------------------------------------------- C3
InChannel(h) == Len(h.path_stack) >= 2 /\ SubSeq(h.path_stack, 1, 2) = CHANNEL_PATH

ChannelCloses == handler.path_stack = CHANNEL_PATH /\ handler'.path_stack = <<"rss">>

IsSortedDesc(entries) ==
    \A i \in 1..(Len(entries) - 1) : entries[i]["published"] >= entries[i + 1]["published"]

\* how many entries are published at p or later
AtLeast(entries, p) == Cardinality({i \in 1..Len(entries) : entries[i]["published"] >= p})

Smaller(a, b) == IF a < b THEN a ELSE b

\* `after` holds the n most recent entries of `before` (all of them when n = 0),
\* most recent first
IsMostRecent(after, before, n) ==
    /\ IsSortedDesc(after)
    /\ Len(after) = IF n = 0 THEN Len(before) ELSE Smaller(n, Len(before))
    /\ \A i \in 1..Len(after) : \E j \in 1..Len(before) : after[i] = before[j]
    /\ \A j \in 1..Len(before) :
          AtLeast(after, before[j]["published"]) =
              Smaller(Len(after), AtLeast(before, before[j]["published"]))

\* C3 as stated: the sort+truncate step runs once in a parse, and after it has
\* run the document's episode list is never modified again.
C3_Once ==
    [][finalized >= 1 =>
          /\ finalized' = finalized
          /\ data_episodes(handler') = data_episodes(handler)]_vars

\* C3 amended: the sort+truncate step runs at every close of a channel element
\* under the rss root, leaving the document's list as the most recent entries of
\* what it held; once it has run, the list is not modified while no channel
\* element is open (so not after the last channel close).
C3_EveryChannelClose ==
    [][/\ ChannelCloses =>
            IsMostRecent(data_episodes(handler'), data_episodes(handler),
                         handler.max_episodes)
       /\ finalized >= 1 /\ ~InChannel(handler) /\ ~InChannel(handler') =>
            data_episodes(handler') = data_episodes(handler)]_vars

\* two channel elements have closed, the second sorted a list that the items of
\* both filled
C3_Witness ==
    /\ finalized = 2
    /\ result # None
    /\ Len(result[1]["episodes"]) = 2
    /\ result[1]["episodes"][1]["published"] > result[1]["episodes"][2]["published"]

\* --------------------------------------------------------------- C4
\* C4: the episode list of the returned document is in non-increasing order of
\* published.
C4_Sorted == result # None => IsSortedDesc(result[1]["episodes"])

\* a returned document of two episodes with different published values, sorted
\* by the one channel close of the parse
C4_Witness ==
    /\ result # None
    /\ Len(result[1]["episodes"]) = 2
    /\ result[1]["episodes"][1]["published"] = 1
    /\ result[1]["episodes"][2]["published"] = 0
    /\ result[1]["episodes"][1]["url"] # result[1]["episodes"][2]["url"]
    /\ handler.sliced = None
    /\ finalized = 1

\* --------------------------------------------------------------- C5
\* C5: with max_episodes > 0 the returned document holds at most max_episodes
\* episodes.
C5_AtMost ==
    result # None /\ handler.max_episodes > 0 =>
        Len(result[1]["episodes"]) <= handler.max_episodes

\* a returned document cut to one episode out of two that were kept
C5_Witness ==
    /\ result # None
    /\ handler.max_episodes = 1
    /\ Len(handler.episodes) = 2
    /\ Len(result[1]["episodes"]) = 1

\* --------------------------------------------------------------- C6
\* C6: the file_size of every output episode is -1 or a positive integer (the
\* declared length of the chosen enclosure), whatever the length attribute
\* holds, negative numbers included.
C6_FileSize ==
    result # None =>
        \A i \in 1..Len(result[1]["episodes"]) :
            \/ result[1]["episodes"][i]["file_size"] = -1
            \/ result[1]["episodes"][i]["file_size"] > 0

\* --------------------------------------------------------------- C7
\* C7: every output episode has a non-empty guid.
C7_GuidNonEmpty ==
    result # None =>
        \A i \in 1..Len(result[1]["episodes"]) : result[1]["episodes"][i]["guid"] # <<>>

\* --------------------------------------------------------------- C8
ItemCloses == handler.path_stack = ITEM_PATH /\ handler'.path_stack = CHANNEL_PATH

ItemOpens == handler.path_stack = CHANNEL_PATH /\ handler'.path_stack = ITEM_PATH

\* the in-progress episode of the open item
OpenEntry == handler.episodes[Len(handler.episodes)]

\* the episode the closing item has left at the end of the list
ClosedEntry == handler'.episodes[Len(handler'.episodes)]

\* C8: an item leaves an episode in the list iff it contained an enclosure
\* element with a url attribute or its link at item close is accepted by one of
\* the two video-link classifiers; any other item is removed at item close, and
\* nothing but the opening of an item adds an entry to the list.
C8_KeptIff ==
    [][/\ ItemCloses =>
            IF \/ seen.enclosure # None
               \/ youtube_is_video_link(OpenEntry["link"])
               \/ vimeo_is_video_link(OpenEntry["link"])
            THEN /\ Len(handler'.episodes) = Len(handler.episodes)
                 /\ "url" \in DOMAIN ClosedEntry
            ELSE handler'.episodes = SubSeq(handler.episodes, 1, Len(handler.episodes) - 1)
       /\ Len(handler'.episodes) > Len(handler.episodes) =>
            ItemOpens /\ handler'.episodes = Append(handler.episodes, NewEpisode)]_vars

\* a document was returned whose item had no enclosure and was kept for its
\* link, which only the second classifier accepts
C8_Witness ==
    /\ result # None
    /\ Len(result[1]["episodes"]) = 1
    /\ result[1]["episodes"][1]["url"] = VIMEO_LINK

\* --------------------------------------------------------------- C9
HasSlash(text) == \E i \in 1..Len(text) : text[i] = "/"

\* C9: the mime_type of every output episode is non-empty and contains '/'; at
\* item close it is the type attribute of the chosen (first url-bearing)
\* enclosure when that is non-empty and contains '/', "video/mp4" for a
\* synthetic enclosure, and "application/octet-stream" otherwise.
C9_MimeType ==
    /\ [](result # None =>
            \A i \in 1..Len(result[1]["episodes"]) :
                /\ result[1]["episodes"][i]["mime_type"] # <<>>
                /\ HasSlash(result[1]["episodes"][i]["mime_type"]))
    /\ [][ItemCloses /\ Len(handler'.episodes) = Len(handler.episodes) =>
            ClosedEntry["mime_type"] =
                IF seen.enclosure = None THEN VIDEO_MP4
                ELSE IF /\ "type" \in DOMAIN seen.enclosure[1]
                        /\ seen.enclosure[1]["type"] # <<>>
                        /\ HasSlash(seen.enclosure[1]["type"])
                     THEN seen.enclosure[1]["type"]
                     ELSE OCTET_STREAM]_vars

\* a document was returned whose episode has the type its enclosure declared
C9_Witness ==
    /\ result # None
    /\ Len(result[1]["episodes"]) = 1
    /\ result[1]["episodes"][1]["mime_type"] = <<"a", "/", "b">>

\* --------------------------------------------------------------- C10
\* C10: when an item holds enclosure elements with a url attribute, the episode
\* takes url, file_size and mime_type from the first of them in document order,
\* whatever enclosures and other children follow or lie between.
C10_FirstEnclosure ==
    [][ItemCloses /\ seen.enclosure # None =>
          /\ ClosedEntry["url"] = parse_url(urljoin(handler.url, seen.enclosure[1]["url"]))
          /\ ClosedEntry["file_size"] = parse_length(get(seen.enclosure[1], "length"))
          /\ ClosedEntry["mime_type"] = parse_type(get(seen.enclosure[1], "type"))]_vars

\* an item is about to close that holds two different enclosures and a link
\* element
C10_Witness ==
    /\ handler.path_stack = ITEM_PATH
    /\ Len(OpenEntry["enclosures"]) = 2
    /\ OpenEntry["enclosures"][1]["url"] # OpenEntry["enclosures"][2]["url"]
    /\ OpenEntry["enclosures"][1]["mime_type"] # OpenEntry["enclosures"][2]["mime_type"]
    /\ OpenEntry["link"] # <<>>

\* ----------------------------------------------------- consecutive parses
\* The two parses of one process run one after the other: the second starts
\* when the first has returned, and finds in MAPPING what the first left there.
Turn(t) == t = "t2" => threads["t1"].result # None

NextSequential ==
    \E t \in Threads :
        /\ Turn(t)
        /\ \/ ThreadStartDocElement(t)
           \/ ThreadSomeCharacters(t)
           \/ ThreadEndElement(t)
           \/ GuidEndStore(t)
           \/ GuidEndCall(t)
           \/ ThreadReturn(t)

SpecSequential == InitThreads /\ [][NextSequential]_vars

\* --------------------------------------------------------------- C11
\* C11: a parse that runs after an earlier parse of the same process returns
\* the document that the same url, event stream and max_episodes yield in a
\* process where no parse ran before; what the earlier parse left in the
\* handler table has no influence.
C11_Deterministic ==
    threads["t2"].result # None =>
        threads["t2"].result[1] = document(threads["t2"].alone)

\* the earlier parse resolved a guid against its xml:base and left its closure
\* in the table; the later parse, without xml:base, returned its guid as it is
C11_Witness ==
    /\ threads["t1"].result # None
    /\ Len(threads["t1"].result[1]["episodes"]) = 1
    /\ threads["t1"].result[1]["episodes"][1]["guid"] = BASE_A \o <<"g">>
    /\ threads["t2"].result # None
    /\ Len(threads["t2"].result[1]["episodes"]) = 1
    /\ threads["t2"].result[1]["episodes"][1]["guid"] = <<"g">>

\* --------------------------------------------------------------- C12
\* the final form of an episode
IsFinal(entry) ==
    /\ {"url", "guid", "title"} \subseteq DOMAIN entry
    /\ "enclosures" \notin DOMAIN entry
    /\ "_guid_is_permalink" \notin DOMAIN entry

AllFinal(entries) == \A i \in 1..Len(entries) : IsFinal(entries[i])

\* C12: every episode of the returned document is in final form (url, guid
\* and title present, the enclosures list and the permalink flag gone), and
\* the list holds final episodes only when the per-document sort runs.
C12_FinalForm ==
    /\ [](result # None => AllFinal(result[1]["episodes"]))
    /\ [][ChannelCloses => AllFinal(data_episodes(handler))]_vars

\* a document was returned after a sort over two episodes, whose guid and
\* title are defaulted from the url
C12_Witness ==
    /\ result # None
    /\ Len(result[1]["episodes"]) = 2
    /\ \A i \in 1..2 : /\ result[1]["episodes"][i]["guid"] = result[1]["episodes"][i]["url"]
                       /\ result[1]["episodes"][i]["title"] = result[1]["episodes"][i]["url"]

\* ----------------------------------------------------- malformed documents
\* faulty variant: the error is swallowed and the data parsed so far returned
on_error_partial(h) == Some(document(h))

\* line 272 raised: parse() has no except clause, so line 273 is not reached
\* and parse() returns nothing; the exception leaves parse() for the caller
on_error(h) == None

\* the XML reader finds the document not well-formed (sax.parse raises
\* SAXParseException out of line 272); it can happen at any event
Malformed ==
    /\ result = None
    /\ stream \in {"start", "open", "end"}
    /\ stream' = "error"
    /\ result' = on_error(handler)
    /\ UNCHANGED <<handler, unlimited, guid_filter, finalized, seen, delivered, kept, threads>>

NextMalformed == Next \/ Malformed

\* parses of feed documents that may turn out malformed
SpecMalformed == Init /\ [][NextMalformed]_vars

\* --------------------------------------------------------------- C13
\* C13: when the event source reports a fatal error, the parse stops at that
\* event (no callback runs afterwards) and no document is returned, also when
\* episodes were finalized before the error.
C13_NoPartialResult ==
    /\ [](stream = "error" => result = None)
    /\ [][stream = "error" => handler' = handler /\ result' = None /\ stream' = "error"]_vars
    /\ [][stream' = "error" /\ stream # "error" => handler' = handler /\ result' = None]_vars

\* the error came after an episode was finalized and the list was sorted
C13_Witness ==
    /\ stream = "error"
    /\ finalized >= 1
    /\ Len(data_episodes(handler)) >= 1
    /\ AllFinal(data_episodes(handler))
    /\ result = None

\* --------------------------------------------------------------- C14
TITLE_PATH == <<"rss", "channel", "title">>

TitleCloses == handler.path_stack = TITLE_PATH /\ handler'.path_stack = CHANNEL_PATH

\* C14: hooks are found by the exact path from the root.  The document title
\* changes only at the exit of rss/channel/title, which sets it to the text of
\* that element (never at an item's title or a title elsewhere), and an
\* episode is created only at the enter of rss/channel/item, which appends a
\* new one (never at an item element nested deeper or below another parent
\* or root).
C14_ExactPath ==
    [][/\ document(handler')["title"] # document(handler)["title"] => TitleCloses
       /\ TitleCloses => document(handler')["title"] = squash_whitespace(join(delivered))
       /\ Len(handler'.episodes) > Len(handler.episodes) => ItemOpens
       /\ ItemOpens => handler'.episodes = Append(handler.episodes, NewEpisode)]_vars

\* an item element is open inside an item whose title differs from the title
\* of the document: neither the item's title nor the inner item has touched
\* the document or added an episode
C14_Witness ==
    /\ handler.path_stack = ITEM_PATH \o <<"item">>
    /\ Len(handler.episodes) = 1
    /\ "title" \in DOMAIN OpenEntry
    /\ document(handler)["title"] # <<>>
    /\ OpenEntry["title"] # document(handler)["title"]

\* --------------------------------------------------------------- C15
\* an element bound to a text-wanting target is open
TextOpen(path) ==
    \E k \in 1..Len(path) :
        /\ SubSeq(path, 1, k) \in DOMAIN MAPPING
        /\ WANT_TEXT(MAPPING[SubSeq(path, 1, k)])

\* the element that closes is bound
BoundCloses ==
    /\ handler.path_stack \in DOMAIN MAPPING
    /\ handler'.path_stack = SubSeq(handler.path_stack, 1, Len(handler.path_stack) - 1)

\* what endElement leaves when the exit hook is given `text`
AfterExitWith(text) ==
    [target_end(MAPPING[handler.path_stack], handler, text, handler.base)
        EXCEPT !.text = None,
               !.path_stack = SubSeq(@, 1, Len(@) - 1)]

\* C15: the exit hook of a text-wanting target is given the in-order
\* concatenation of all chunks delivered since the enter of its element, those
\* inside nested unbound elements included; chunks delivered while no such
\* element is open are buffered nowhere and reach no hook.
C15_TextPassed ==
    /\ [](IF TextOpen(handler.path_stack)
          THEN handler.text = Some(delivered)
          ELSE handler.text = None)
    /\ [][/\ BoundCloses =>
                handler' = AfterExitWith(IF WANT_TEXT(MAPPING[handler.path_stack])
                                         THEN join(delivered) ELSE <<>>)
          /\ Len(delivered') > Len(delivered) /\ ~TextOpen(handler.path_stack) =>
                handler' = handler]_vars

\* the document title is the chunk of the title element followed by the chunk
\* delivered inside an unbound element nested in it
C15_Witness ==
    /\ handler.path_stack = CHANNEL_PATH
    /\ document(handler)["title"] = <<"a", "z">>

\* --------------------------------------------------------------- C16
UnboundEnters ==
    /\ Len(handler'.path_stack) = Len(handler.path_stack) + 1
    /\ handler'.path_stack \notin DOMAIN MAPPING

UnboundExits ==
    /\ Len(handler'.path_stack) = Len(handler.path_stack) - 1
    /\ handler.path_stack \notin DOMAIN MAPPING

\* C16: the enter and the exit of an element whose path is not bound change
\* nothing of the handler but the path stack (document, episode list, base and
\* text buffer stay as they are); the enter pushes the name, the exit pops it.
C16_UnboundFrame ==
    [][/\ UnboundEnters \/ UnboundExits =>
            /\ document(handler') = document(handler)
            /\ handler'.episodes = handler.episodes
            /\ handler'.base = handler.base
            /\ handler'.text = handler.text
            /\ handler' = [handler EXCEPT !.path_stack = handler'.path_stack]
       /\ UnboundEnters =>
            SubSeq(handler'.path_stack, 1, Len(handler.path_stack)) = handler.path_stack
       /\ UnboundExits =>
            handler'.path_stack = SubSeq(handler.path_stack, 1, Len(handler.path_stack) - 1)]_vars

\* an unbound element was entered and left inside the title element of an
\* item: the chunk delivered inside it is in the buffer behind the earlier one
C16_Witness ==
    /\ handler.path_stack = ITEM_PATH \o <<"title">>
    /\ handler.text = Some(<<"a", "z">>)
    /\ Len(handler.episodes) = 1

\* --------------------------------------------------------------- C17
\* the entries with the given published value, in the order of the list
WithPublished(entries, p) ==
    LET Has(e) == e["published"] = p IN SelectSeq(entries, Has)

IsPrefix(a, b) == Len(a) <= Len(b) /\ SubSeq(b, 1, Len(a)) = a

\* C17: the episodes of the returned document that have the same published
\* value are in the order in which their items came in the event stream (they
\* are the first of the kept episodes with that value), however often the
\* sort has run.
C17_Stable ==
    result # None =>
        \A i \in 1..Len(kept) :
            IsPrefix(WithPublished(result[1]["episodes"], kept[i]["published"]),
                     WithPublished(kept, kept[i]["published"]))

\* two different episodes of equal published value were returned after the
\* sort had run twice
C17_Witness ==
    /\ result # None
    /\ finalized = 2
    /\ Len(result[1]["episodes"]) = 2
    /\ result[1]["episodes"][1]["published"] = result[1]["episodes"][2]["published"]
    /\ result[1]["episodes"][1]["url"] # result[1]["episodes"][2]["url"]
    /\ result[1]["episodes"] = kept

\* --------------------------------------------------------------- C18
\* "true", ignoring case
IsTrueIgnoringCase(text) ==
    /\ Len(text) = 4
    /\ text[1] \in {"t", "T"}
    /\ text[2] \in {"r", "R"}
    /\ text[3] \in {"u", "U"}
    /\ text[4] \in {"e", "E"}

\* the last guid element of the open item declared its text a permalink
DeclaredPermalink ==
    /\ seen.guid # None
    /\ \/ "isPermaLink" \notin DOMAIN seen.guid[1]
       \/ IsTrueIgnoringCase(seen.guid[1]["isPermaLink"])

\* C18: an episode whose item's last guid element had isPermaLink absent or
\* "true" (ignoring case) and whose link is empty at item close gets the final
\* guid as link; in every other case (no guid element, another isPermaLink
\* value, a non-empty link) the link stays what the link element gave.
C18_PermalinkLink ==
    [][ItemCloses /\ Len(handler'.episodes) = Len(handler.episodes) =>
          ClosedEntry["link"] =
              IF DeclaredPermalink /\ OpenEntry["link"] = <<>>
              THEN ClosedEntry["guid"]
              ELSE OpenEntry["link"]]_vars

\* a document was returned whose episode, of an item that gave no link,
\* has the guid resolved against xml:base as its link
C18_Witness ==
    /\ result # None
    /\ Len(result[1]["episodes"]) = 1
    /\ result[1]["episodes"][1]["guid"] = BASE_A \o <<"g">>
    /\ result[1]["episodes"][1]["link"] = BASE_A \o <<"g">>

\* --------------------------------------------------------------- C19
\* C19: an item without url-bearing enclosure whose link at item close is
\* accepted by one of the two classifiers is kept, with the link as url,
\* file_size -1 and mime_type "video/mp4", whichever classifier accepted the
\* link and wherever the link element stood among the children.
C19_Synthetic ==
    [][/\ ItemCloses
       /\ seen.enclosure = None
       /\ youtube_is_video_link(OpenEntry["link"]) \/ vimeo_is_video_link(OpenEntry["link"])
       => /\ Len(handler'.episodes) = Len(handler.episodes)
          /\ ClosedEntry["url"] = OpenEntry["link"]
          /\ ClosedEntry["file_size"] = -1
          /\ ClosedEntry["mime_type"] = VIDEO_MP4]_vars

\* a document was returned whose episode is the link the first classifier
\* accepts, with the fields of a synthetic enclosure
C19_Witness ==
    /\ result # None
    /\ Len(result[1]["episodes"]) = 1
    /\ result[1]["episodes"][1]["url"] = YOUTUBE_LINK
    /\ result[1]["episodes"][1]["link"] = YOUTUBE_LINK
    /\ result[1]["episodes"][1]["file_size"] = -1
    /\ result[1]["episodes"][1]["mime_type"] = VIDEO_MP4

\* --------------------------------------------------------------- C20
\* the rss/channel/item element is open
ItemOpen(path) == Len(path) >= Len(ITEM_PATH) /\ SubSeq(path, 1, Len(ITEM_PATH)) = ITEM_PATH

\* the in-progress form of an episode
IsInProgress(entry) == {"enclosures", "_guid_is_permalink"} \subseteq DOMAIN entry

\* C20: while an item element is open, which is when the episode-scoped
\* handlers run, the episode list is not empty, its last element is the
\* in-progress episode of that item and all elements before it are the
\* finalized episodes kept so far, which the handlers leave untouched; this
\* holds after dropped items and after channel closes sorted or cut the list.
C20_LastInProgress ==
    /\ [](ItemOpen(handler.path_stack) =>
            /\ handler.episodes # <<>>
            /\ IsInProgress(OpenEntry)
            /\ Len(handler.episodes) = Len(kept) + 1
            /\ AllFinal(SubSeq(handler.episodes, 1, Len(handler.episodes) - 1)))
    /\ [][ItemOpen(handler.path_stack) =>
            SubSeq(handler'.episodes, 1, Len(handler.episodes) - 1)
                = SubSeq(handler.episodes, 1, Len(handler.episodes) - 1)]_vars

\* an item with an enclosure is open in a second channel, after an item was
\* kept and the first channel close sorted and cut the list
C20_Witness ==
    /\ handler.path_stack = ITEM_PATH
    /\ finalized = 1
    /\ handler.sliced # None
    /\ Len(kept) = 1
    /\ Len(handler.episodes) = 2
    /\ Len(OpenEntry["enclosures"]) = 1

=============================================================================
